---- MODULE Spec2Model ----
(***************************************************************************)
(* Model of the itinerary planner: the request handler generate_itinerary  *)
(* (app/api.py), the ranking filter generate_recommendations               *)
(* (app/recommendation_engine.py) and the daily solver                     *)
(* solve_vrptw_for_day with create_time_matrix                             *)
(* (app/optimization_engine.py).                                           *)
(*                                                                         *)
(* Data frames are sequences of rows (records).  Every numeric cell of a   *)
(* row is a tagged value: a number, NaN, or None (a missing cell), so that *)
(* math.isnan and int() act on it as Python does.  Locations lie on one    *)
(* meridian: latitude is counted in hectometres along it, so the haversine *)
(* distance of two rows is |lat1 - lat2| / 10 km.                          *)
(***************************************************************************)
EXTENDS Integers, Sequences, FiniteSets, TLC

VARIABLES ATTRACTIONS_DATA, req, pc, recommended_attractions_df,
          current_attraction_pool, day, final_itinerary, response, offered, calls,
          peer, unit

vars == <<ATTRACTIONS_DATA, req, pc, recommended_attractions_df,
          current_attraction_pool, day, final_itinerary, response, offered, calls,
          peer, unit>>

----------------------------------------------------------------------------
(* Bounds of the model *)

MaxPoints == 5

MaxDay == 2

(* Program constants *)

attractions_per_day == 4

travel_speed_kmph == 20

FallbackDuration == 60

DefaultStartHour == 9

DefaultEndHour == 21

----------------------------------------------------------------------------
(* Cell values *)

Num(n) == [t |-> "num", n |-> n]

NaN == [t |-> "nan", n |-> 0]

None == [t |-> "none", n |-> 0]

\* math.isnan(x): raises TypeError on None
IsNanRaises(x) == x.t = "none"

IsNan(x) == x.t = "nan"

\* int(x): raises ValueError on NaN, TypeError on None
IntRaises(x) == x.t # "num"

IntOf(x) == x.n

Max2(a, b) == IF a >= b THEN a ELSE b

Min2(a, b) == IF a <= b THEN a ELSE b

Abs(a) == IF a >= 0 THEN a ELSE -a

SeqToSet(s) == {s[i] : i \in 1..Len(s)}

\* df.head(n), also for n <= 0 (all rows but the last |n|)
DfHead(df, n) ==
    IF n >= 0 THEN SubSeq(df, 1, Min2(n, Len(df)))
    ELSE SubSeq(df, 1, Max2(Len(df) + n, 0))

Ids(df) == {df[i].id : i \in 1..Len(df)}

IdSeq(df) == [i \in 1..Len(df) |-> df[i].id]

----------------------------------------------------------------------------
(* Inputs *)

\* the kinds of row the point table is drawn from
PointKinds ==
    { [name |-> "Museum A", latitude |-> 13, open_time |-> Num(0),
       close_time |-> Num(1020), avg_visit_duration |-> Num(120), price_level |-> 2],
      [name |-> "Landmark D", latitude |-> 0, open_time |-> Num(600),
       close_time |-> Num(660), avg_visit_duration |-> Num(320), price_level |-> 2],
      [name |-> "Gallery E", latitude |-> 0, open_time |-> None,
       close_time |-> Num(960), avg_visit_duration |-> NaN, price_level |-> 3] }

\* a table of n >= 1 rows, listed by decreasing composite score, identifiers 1..n
MkTable(f) ==
    [i \in DOMAIN f |->
        [id |-> i, name |-> f[i].name, latitude |-> f[i].latitude,
         open_time |-> f[i].open_time, close_time |-> f[i].close_time,
         avg_visit_duration |-> f[i].avg_visit_duration,
         price_level |-> f[i].price_level,
         composite_score |-> Len(f) + 1 - i]]

Tables == {MkTable(f) : f \in UNION {[1..n -> PointKinds] : n \in 1..MaxPoints}}

\* a date string: "YYYY-MM-DD" with its day ordinal, or text strptime rejects
Date(n) == [fmt |-> "ymd", ord |-> n]

BadDate == [fmt |-> "text", ord |-> 0]

MkRequest(start, end, h, b) ==
    [fields |-> "ok", start_date |-> start, end_date |-> end, budget |-> b,
     daily_start_hour |-> h[1], daily_end_hour |-> h[2]]

\* the daily hours of a request: from midnight, or the dataclass defaults
Hours == {<<0, DefaultEndHour>>, <<DefaultStartHour, DefaultEndHour>>}

\* requests over a range of 1..MaxDay days
PlanningRequests ==
    {MkRequest(Date(1), Date(e), h, b) : e \in 1..MaxDay, h \in Hours, b \in {2, 3}}

\* requests with an inverted date range, an inverted daily window, a date
\* strptime rejects, or a missing field
MalformedRequests ==
    { MkRequest(Date(2), Date(1), <<0, DefaultEndHour>>, 3),
      MkRequest(Date(1), Date(1), <<DefaultStartHour, DefaultStartHour - 1>>, 3),
      MkRequest(Date(1), Date(1), <<DefaultStartHour, DefaultStartHour>>, 3),
      MkRequest(BadDate, Date(1), <<0, DefaultEndHour>>, 3),
      MkRequest(Date(1), BadDate, <<0, DefaultEndHour>>, 3),
      [MkRequest(Date(1), Date(1), <<0, DefaultEndHour>>, 3) EXCEPT !.fields = "missing"] }

Requests == PlanningRequests \cup MalformedRequests

----------------------------------------------------------------------------
(* generate_recommendations *)

RECURSIVE InsertByScore(_, _)
InsertByScore(row, sorted) ==
    IF sorted = <<>> THEN <<row>>
    ELSE IF row.composite_score > Head(sorted).composite_score
         THEN <<row>> \o sorted
         ELSE <<Head(sorted)>> \o InsertByScore(row, Tail(sorted))

RECURSIVE SortByScoreDesc(_)
\* sort_values(by='composite_score', ascending=False); ties keep their order
SortByScoreDesc(df) ==
    IF df = <<>> THEN <<>>
    ELSE InsertByScore(Head(df), SortByScoreDesc(Tail(df)))

BudgetFilter(df, request) ==
    LET affordable(r) == r.price_level <= request.budget
    IN SelectSeq(df, affordable)

generate_recommendations(attractions_df, request) ==
    SortByScoreDesc(BudgetFilter(attractions_df, request))

----------------------------------------------------------------------------
(* create_time_matrix *)

\* haversine of two rows on one meridian, in hectometres
haversine_hm(lat1, lat2) == Abs(lat2 - lat1)

\* int((distance_km / speed) * 60), distance_km = hm / 10: int() drops the
\* fraction of a non-negative float
time_minutes_at(lat1, lat2, speed) ==
    (haversine_hm(lat1, lat2) * 60) \div (10 * speed)

\* the solver calls create_time_matrix with the default speed
time_minutes(lat1, lat2) == time_minutes_at(lat1, lat2, travel_speed_kmph)

\* full_locations[node]: the depot (node 0) lies where the first row lies
full_locations(attractions_df, node) ==
    IF node = 0 THEN attractions_df[1].latitude ELSE attractions_df[node].latitude

\* time_matrix[i][j] for nodes i, j in 0..n (node 0 is the depot)
create_time_matrix(attractions_df, i, j) ==
    IF i = j THEN 0
    ELSE time_minutes(full_locations(attractions_df, i),
                      full_locations(attractions_df, j))

----------------------------------------------------------------------------
(* solve_vrptw_for_day: time windows *)

daily_start_of(request) == request.daily_start_hour * 60

daily_end_of(request) == request.daily_end_hour * 60

\* mutant: the full-day window opens at midnight
default_window_FromMidnight(request) == <<0, daily_end_of(request)>>

default_window(request) == <<daily_start_of(request), daily_end_of(request)>>

\* the try block of the window loop raises ValueError or TypeError
WindowRaises(r) ==
    \/ IsNanRaises(r.open_time)
    \/ IsNan(r.open_time)
    \/ IsNanRaises(r.close_time)
    \/ IsNan(r.close_time)
    \/ IsNanRaises(r.avg_visit_duration)
    \/ IsNan(r.avg_visit_duration)
    \/ IntRaises(r.open_time)
    \/ IntRaises(r.close_time)
    \/ IntRaises(r.avg_visit_duration)

\* mutant: the window is appended without the check for end < start
resolve_window_Unchecked(r, request) ==
    <<Max2(IntOf(r.open_time), daily_start_of(request)),
      Min2(IntOf(r.close_time), daily_end_of(request)) - IntOf(r.avg_visit_duration)>>

\* the window appended for row r
resolve_window(r, request) ==
    IF WindowRaises(r) THEN default_window(request)
    ELSE LET start == Max2(IntOf(r.open_time), daily_start_of(request))
             max_end_time == Min2(IntOf(r.close_time), daily_end_of(request))
             end == max_end_time - IntOf(r.avg_visit_duration)
         IN IF end < start THEN default_window(request) ELSE <<start, end>>

\* mutant: every node is given the full-day window
time_windows_AllDefault(attractions_df, request, node) == default_window(request)

\* data['time_windows'][node]: node 0 is the depot
time_windows(attractions_df, request, node) ==
    IF node = 0 THEN default_window(request)
    ELSE resolve_window(attractions_df[node], request)

----------------------------------------------------------------------------
(* solve_vrptw_for_day: transit callback and time dimension *)

\* mutant: the visit duration is left out of the transit
callback_duration_Zero(attractions_df, from_node) == 0

\* the duration time_callback charges to from_node
callback_duration(attractions_df, from_node) ==
    IF from_node > 0
    THEN IF IntRaises(attractions_df[from_node].avg_visit_duration)
         THEN FallbackDuration
         ELSE IntOf(attractions_df[from_node].avg_visit_duration)
    ELSE 0

time_callback(attractions_df, from_node, to_node) ==
    create_time_matrix(attractions_df, from_node, to_node)
        + callback_duration(attractions_df, from_node)

RECURSIVE Perms(_)
Perms(S) ==
    IF S = {} THEN {<<>>}
    ELSE UNION {{<<x>> \o p : p \in Perms(S \ {x})} : x \in S}

\* every visiting order of the nodes 1..n: no node is optional, none repeats
VisitOrders == [n \in 0..attractions_per_day |-> Perms(1..n)]

RECURSIVE Cumuls(_, _, _)
\* the Time cumul at each of the first k visited nodes: the start cumul is
\* fixed to 0 and the slack is 0, so each cumul is the last plus the transit
Cumuls(attractions_df, route, k) ==
    IF k = 0 THEN <<>>
    ELSE IF k = 1 THEN <<0 + time_callback(attractions_df, 0, route[1])>>
    ELSE LET prev == Cumuls(attractions_df, route, k - 1)
         IN Append(prev, prev[k - 1]
                           + time_callback(attractions_df, route[k - 1], route[k]))

InRange(x, w) == w[1] <= x /\ x <= w[2]

\* CumulVar(index).SetRange and the dimension's capacity daily_end, over one
\* visiting order; the vehicle ends back at the depot
RouteAdmitted(attractions_df, request, route) ==
    LET cumul == Cumuls(attractions_df, route, Len(route))
        n == Len(route)
    IN /\ \A k \in 1..n :
             /\ InRange(cumul[k], time_windows(attractions_df, request, route[k]))
             /\ cumul[k] <= daily_end_of(request)
       /\ cumul[n] + time_callback(attractions_df, route[n], 0) <= daily_end_of(request)

\* the routes the routing model admits; the depot's range must hold the
\* start cumul 0
FeasibleRoutes(attractions_df, request) ==
    IF InRange(0, time_windows(attractions_df, request, 0))
    THEN {route \in VisitOrders[Len(attractions_df)] :
             RouteAdmitted(attractions_df, request, route)}
    ELSE {}

----------------------------------------------------------------------------
(* solve_vrptw_for_day: result *)

NoAttractionsError == "No attractions found for the given criteria."

OptimizationError ==
    "Optimization failed to find a feasible route. Try reducing the number of stops or increasing the daily available time."

\* get_route raises at a stop whose duration is NaN or None
StopRaises(r) == r.avg_visit_duration.t # "num"

\* the cells of a row that get_route reads, without the row's identifier
AttrData(r) ==
    [name |-> r.name, latitude |-> r.latitude, open_time |-> r.open_time,
     close_time |-> r.close_time, avg_visit_duration |-> r.avg_visit_duration]

\* the stop get_route appends for a visited node whose cumul is start;
\* attr_data records the row the stop was built from
route_stop(r, start) ==
    [attraction_name |-> r.name,
     start_time_minutes |-> start,
     end_time_minutes |-> start + IntOf(r.avg_visit_duration),
     arrival_time |-> <<start \div 60, start % 60>>,
     attr_data |-> AttrData(r)]

\* mutant: the traversal skips node 1 as well as the depot
get_route_SkipsFirst(attractions_df, route) ==
    LET cumul == Cumuls(attractions_df, route, Len(route))
        kept == SelectSeq([k \in 1..Len(route) |-> k], LAMBDA k : route[k] > 1)
    IN [kind |-> "route",
        stops |-> [j \in 1..Len(kept) |->
                      route_stop(attractions_df[route[kept[j]]], cumul[kept[j]])],
        error |-> "",
        ids |-> {attractions_df[route[kept[j]]].id : j \in 1..Len(kept)}]

\* ids records the identifiers of the rows on the route
get_route(attractions_df, route) ==
    IF \E k \in 1..Len(route) : StopRaises(attractions_df[route[k]])
    THEN [kind |-> "raise", stops |-> <<>>, error |-> "ValueError", ids |-> {}]
    ELSE LET cumul == Cumuls(attractions_df, route, Len(route))
         IN [kind |-> "route",
             stops |-> [k \in 1..Len(route) |->
                           route_stop(attractions_df[route[k]], cumul[k])],
             error |-> "",
             ids |-> {attractions_df[route[k]].id : k \in 1..Len(route)}]

ErrorResult(msg) == [kind |-> "error", stops |-> <<>>, error |-> msg, ids |-> {}]

SetRangeError == "CP Solver fail"

\* CumulVar(index).SetRange empties a variable's domain while the model is
\* built: the start cumul is {0}, every other cumul is 0..daily_end
SetRangeFails(attractions_df, request) ==
    \E node \in 0..Len(attractions_df) :
        LET w == time_windows(attractions_df, request, node)
        IN IF node = 0 THEN ~InRange(0, w)
           ELSE w[1] > w[2] \/ w[2] < 0 \/ w[1] > daily_end_of(request)

\* every outcome of one call.  A SetRange that fails outside the search
\* either raises in the wrapper or leaves the model infeasible; otherwise
\* SolveWithParameters returns no solution when the model admits no route,
\* and some route the model admits when it admits one
solve_vrptw_for_day(attractions_df, request) ==
    IF attractions_df = <<>>
    THEN {ErrorResult(NoAttractionsError)}
    ELSE IF SetRangeFails(attractions_df, request)
    THEN {[kind |-> "raise", stops |-> <<>>, error |-> SetRangeError, ids |-> {}],
          ErrorResult(OptimizationError)}
    ELSE IF FeasibleRoutes(attractions_df, request) = {}
         THEN {ErrorResult(OptimizationError)}
         ELSE {get_route(attractions_df, route) :
                  route \in FeasibleRoutes(attractions_df, request)}

----------------------------------------------------------------------------
(* generate_itinerary *)

NoResponse == [status |-> 0, body |-> "none", itinerary |-> <<>>]

\* the local variables of a second request served at the same time
Frame(request, at) ==
    [req |-> request, pc |-> at, recommended_attractions_df |-> <<>>,
     current_attraction_pool |-> <<>>, day |-> 0, final_itinerary |-> <<>>,
     response |-> NoResponse]

\* no second request is being served
NoPeer == Frame(<<>>, "idle")

\* no function is being applied on its own
NoUnit == [fn |-> "none", args |-> <<>>, result |-> <<>>]

Init ==
    /\ ATTRACTIONS_DATA \in Tables
    /\ req \in Requests
    /\ pc = "recv"
    /\ recommended_attractions_df = <<>>
    /\ current_attraction_pool = <<>>
    /\ day = 0
    /\ final_itinerary = <<>>
    /\ response = NoResponse
    /\ offered = <<>>
    /\ calls = [rank |-> 0, solve |-> 0]
    /\ peer = NoPeer
    /\ unit = NoUnit

\* datetime.strptime(s, '%Y-%m-%d') raises ValueError
StrptimeRaises(d) == d.fmt # "ymd"

trip_duration_days(request) == request.end_date.ord - request.start_date.ord + 1

max_attractions(df, request) ==
    Min2(Len(df), trip_duration_days(request) * attractions_per_day)

\* (start_date + timedelta(days=day)).strftime('%Y-%m-%d')
current_day(request, d) == Date(request.start_date.ord + d)

daily_pool_of(pool) == DfHead(pool, attractions_per_day)

\* ItineraryRequest(**data): a TypeError is answered with status 400
ParseRequest ==
    /\ pc = "recv"
    /\ IF req.fields = "ok"
       THEN /\ pc' = "recommend"
            /\ response' = response
       ELSE /\ pc' = "done"
            /\ response' = [status |-> 400, body |-> "error", itinerary |-> <<>>]
    /\ UNCHANGED <<peer, unit, ATTRACTIONS_DATA, req, recommended_attractions_df,
                   current_attraction_pool, day, final_itinerary, offered, calls>>

\* ATTRACTIONS_DATA after generate_recommendations(ATTRACTIONS_DATA.copy(), req):
\* the similarity column is written to the copy handed over, the filter and
\* the sort build new frames, the module's table keeps its rows and columns
SharedTableAfterRanking(table, request) == table

\* generate_recommendations(ATTRACTIONS_DATA.copy(), req)
Recommend ==
    /\ pc = "recommend"
    /\ recommended_attractions_df' = generate_recommendations(ATTRACTIONS_DATA, req)
    /\ calls' = [calls EXCEPT !.rank = @ + 1]
    /\ pc' = "plan"
    /\ ATTRACTIONS_DATA' = SharedTableAfterRanking(ATTRACTIONS_DATA, req)
    /\ UNCHANGED <<peer, unit, req, current_attraction_pool, day,
                   final_itinerary, response, offered>>

\* trip length, pool and start date; an unparseable date raises (status 500)
PlanTrip ==
    /\ pc = "plan"
    /\ IF StrptimeRaises(req.end_date) \/ StrptimeRaises(req.start_date)
       THEN /\ pc' = "done"
            /\ response' = [status |-> 500, body |-> "exception", itinerary |-> <<>>]
            /\ UNCHANGED current_attraction_pool
       ELSE /\ pc' = "loop"
            /\ current_attraction_pool' =
                  DfHead(recommended_attractions_df,
                         max_attractions(recommended_attractions_df, req))
            /\ UNCHANGED response
    /\ day' = 0
    /\ UNCHANGED <<peer, unit, ATTRACTIONS_DATA, req, recommended_attractions_df,
                   final_itinerary, offered, calls>>

Return200 == [status |-> 200, body |-> "itinerary", itinerary |-> final_itinerary]

\* range(trip_duration_days) is used up: return jsonify(...)
LoopExit ==
    /\ pc = "loop"
    /\ day >= trip_duration_days(req)
    /\ pc' = "done"
    /\ response' = Return200
    /\ UNCHANGED <<peer, unit, ATTRACTIONS_DATA, req, recommended_attractions_df,
                   current_attraction_pool, day, final_itinerary, offered, calls>>

\* daily_pool.empty: break, then return jsonify(...)
DayBreak ==
    /\ pc = "loop"
    /\ day < trip_duration_days(req)
    /\ daily_pool_of(current_attraction_pool) = <<>>
    /\ pc' = "done"
    /\ response' = Return200
    /\ UNCHANGED <<peer, unit, ATTRACTIONS_DATA, req, recommended_attractions_df,
                   current_attraction_pool, day, final_itinerary, offered, calls>>

\* mutant: the filtered pool is not kept
RemoveScheduled_Noop(pool, daily_route) == pool

\* the pool without the rows whose name is a scheduled name
RemoveScheduled(pool, daily_route) ==
    LET scheduled_names == {daily_route[i].attraction_name : i \in 1..Len(daily_route)}
        unscheduled(r) == r.name \notin scheduled_names
    IN SelectSeq(pool, unscheduled)

\* mutant: the scheduled rows are dropped from the shared table in place
SharedTableAfterDay_InPlace(table, daily_route) == RemoveScheduled(table, daily_route)

\* ATTRACTIONS_DATA after the scheduled names were filtered out: the filter
\* builds a new frame bound to the local name, the module's table keeps its rows
SharedTableAfterDay(table, daily_route) == table

\* "error" not in daily_route[0]: the day's plan, the pool loses the scheduled names
DaySolved(res) ==
    /\ final_itinerary' =
          Append(final_itinerary,
                 [day |-> current_day(req, day), kind |-> "plan",
                  plan |-> res.stops, note |-> "", ids |-> res.ids])
    /\ current_attraction_pool' = RemoveScheduled(current_attraction_pool, res.stops)
    /\ ATTRACTIONS_DATA' = SharedTableAfterDay(ATTRACTIONS_DATA, res.stops)
    /\ day' = day + 1
    /\ UNCHANGED <<pc, response>>

\* mutant: the day's working set is dropped from the pool on an error too
DayInfeasible_DropsOffered(res) ==
    /\ final_itinerary' =
          Append(final_itinerary,
                 [day |-> current_day(req, day), kind |-> "note",
                  plan |-> <<>>, note |-> res.error, ids |-> {}])
    /\ current_attraction_pool' =
          SubSeq(current_attraction_pool, attractions_per_day + 1,
                 Len(current_attraction_pool))
    /\ day' = day + 1
    /\ UNCHANGED <<pc, response, ATTRACTIONS_DATA>>

\* the solver returned an error: the day's note, the pool is left as it is
DayInfeasible(res) ==
    /\ final_itinerary' =
          Append(final_itinerary,
                 [day |-> current_day(req, day), kind |-> "note",
                  plan |-> <<>>, note |-> res.error, ids |-> {}])
    /\ day' = day + 1
    /\ UNCHANGED <<pc, response, current_attraction_pool, ATTRACTIONS_DATA>>

\* solve_vrptw_for_day raised (or daily_route[0] of an empty route did): status 500
DayRaise ==
    /\ pc' = "done"
    /\ response' = [status |-> 500, body |-> "exception", itinerary |-> <<>>]
    /\ UNCHANGED <<current_attraction_pool, day, final_itinerary, ATTRACTIONS_DATA>>

\* one pass of the loop body over a non-empty daily pool
DayStep ==
    /\ pc = "loop"
    /\ day < trip_duration_days(req)
    /\ daily_pool_of(current_attraction_pool) # <<>>
    /\ offered' = Append(offered, IdSeq(daily_pool_of(current_attraction_pool)))
    /\ calls' = [calls EXCEPT !.solve = @ + 1]
    /\ \E daily_route \in solve_vrptw_for_day(daily_pool_of(current_attraction_pool), req) :
          IF daily_route.kind = "raise" \/ (daily_route.kind = "route" /\ daily_route.stops = <<>>)
          THEN DayRaise
          ELSE IF daily_route.kind = "route"
               THEN DaySolved(daily_route)
               ELSE DayInfeasible(daily_route)
    /\ UNCHANGED <<req, recommended_attractions_df, peer, unit>>

Next ==
    \/ ParseRequest
    \/ Recommend
    \/ PlanTrip
    \/ LoopExit
    \/ DayBreak
    \/ DayStep

Spec == Init /\ [][Next]_vars

----------------------------------------------------------------------------
(* Two generate_itinerary requests served at the same time: the handler     *)
(* runs once on the variables above and once on the frame peer; the two     *)
(* share ATTRACTIONS_DATA only                                              *)

MaxConcPoints == 2

ConcTables == {MkTable(f) : f \in UNION {[1..n -> PointKinds] : n \in 1..MaxConcPoints}}

\* requests from midnight, and the longest trip with the default hours
ConcRequests ==
    {r \in PlanningRequests : r.daily_start_hour = 0 \/ r.end_date.ord = MaxDay}

InitConc ==
    /\ ATTRACTIONS_DATA \in ConcTables
    /\ req \in ConcRequests
    /\ pc = "recv"
    /\ recommended_attractions_df = <<>>
    /\ current_attraction_pool = <<>>
    /\ day = 0
    /\ final_itinerary = <<>>
    /\ response = NoResponse
    /\ offered = <<>>
    /\ calls = [rank |-> 0, solve |-> 0]
    /\ \E r \in ConcRequests : peer = Frame(r, "recv")
    /\ unit = NoUnit

\* the variables of the first request
own == <<req, pc, recommended_attractions_df, current_attraction_pool, day,
         final_itinerary, response, offered, calls>>

PlanEntry(request, d, res) ==
    [day |-> current_day(request, d), kind |-> "plan",
     plan |-> res.stops, note |-> "", ids |-> res.ids]

NoteEntry(request, d, res) ==
    [day |-> current_day(request, d), kind |-> "note",
     plan |-> <<>>, note |-> res.error, ids |-> {}]

PeerParseRequest ==
    /\ peer.pc = "recv"
    /\ peer' = IF peer.req.fields = "ok"
               THEN [peer EXCEPT !.pc = "recommend"]
               ELSE [peer EXCEPT !.pc = "done",
                                 !.response = [status |-> 400, body |-> "error",
                                               itinerary |-> <<>>]]
    /\ UNCHANGED <<ATTRACTIONS_DATA, own, unit>>

PeerRecommend ==
    /\ peer.pc = "recommend"
    /\ peer' = [peer EXCEPT
                  !.recommended_attractions_df =
                      generate_recommendations(ATTRACTIONS_DATA, peer.req),
                  !.pc = "plan"]
    /\ ATTRACTIONS_DATA' = SharedTableAfterRanking(ATTRACTIONS_DATA, peer.req)
    /\ UNCHANGED <<own, unit>>

PeerPlanTrip ==
    /\ peer.pc = "plan"
    /\ peer' = IF StrptimeRaises(peer.req.end_date) \/ StrptimeRaises(peer.req.start_date)
               THEN [peer EXCEPT !.pc = "done",
                                 !.response = [status |-> 500, body |-> "exception",
                                               itinerary |-> <<>>]]
               ELSE [peer EXCEPT
                       !.pc = "loop",
                       !.current_attraction_pool =
                           DfHead(peer.recommended_attractions_df,
                                  max_attractions(peer.recommended_attractions_df,
                                                  peer.req))]
    /\ UNCHANGED <<ATTRACTIONS_DATA, own, unit>>

PeerLoopExit ==
    /\ peer.pc = "loop"
    /\ peer.day >= trip_duration_days(peer.req)
    /\ peer' = [peer EXCEPT !.pc = "done",
                            !.response = [status |-> 200, body |-> "itinerary",
                                          itinerary |-> peer.final_itinerary]]
    /\ UNCHANGED <<ATTRACTIONS_DATA, own, unit>>

PeerDayBreak ==
    /\ peer.pc = "loop"
    /\ peer.day < trip_duration_days(peer.req)
    /\ daily_pool_of(peer.current_attraction_pool) = <<>>
    /\ peer' = [peer EXCEPT !.pc = "done",
                            !.response = [status |-> 200, body |-> "itinerary",
                                          itinerary |-> peer.final_itinerary]]
    /\ UNCHANGED <<ATTRACTIONS_DATA, own, unit>>

PeerDayStep ==
    /\ peer.pc = "loop"
    /\ peer.day < trip_duration_days(peer.req)
    /\ daily_pool_of(peer.current_attraction_pool) # <<>>
    /\ \E daily_route \in solve_vrptw_for_day(daily_pool_of(peer.current_attraction_pool),
                                              peer.req) :
          IF daily_route.kind = "raise" \/ (daily_route.kind = "route" /\ daily_route.stops = <<>>)
          THEN /\ peer' = [peer EXCEPT !.pc = "done",
                                       !.response = [status |-> 500, body |-> "exception",
                                                     itinerary |-> <<>>]]
               /\ UNCHANGED ATTRACTIONS_DATA
          ELSE IF daily_route.kind = "route"
               THEN /\ peer' = [peer EXCEPT
                                   !.final_itinerary =
                                       Append(@, PlanEntry(peer.req, peer.day, daily_route)),
                                   !.current_attraction_pool =
                                       RemoveScheduled(@, daily_route.stops),
                                   !.day = @ + 1]
                    /\ ATTRACTIONS_DATA' =
                          SharedTableAfterDay(ATTRACTIONS_DATA, daily_route.stops)
               ELSE /\ peer' = [peer EXCEPT
                                   !.final_itinerary =
                                       Append(@, NoteEntry(peer.req, peer.day, daily_route)),
                                   !.day = @ + 1]
                    /\ UNCHANGED ATTRACTIONS_DATA
    /\ UNCHANGED <<own, unit>>

NextConc ==
    \/ ParseRequest
    \/ Recommend
    \/ PlanTrip
    \/ LoopExit
    \/ DayBreak
    \/ DayStep
    \/ PeerParseRequest
    \/ PeerRecommend
    \/ PeerPlanTrip
    \/ PeerLoopExit
    \/ PeerDayBreak
    \/ PeerDayStep

SpecConc == InitConc /\ [][NextConc]_vars

----------------------------------------------------------------------------
(* The window resolver and create_time_matrix applied to inputs of their own *)

\* create_time_matrix(locations, speed) as a list of rows, locations 1..N
time_matrix(locations, speed) ==
    [i \in 1..Len(locations) |->
        [j \in 1..Len(locations) |->
            IF i = j THEN 0 ELSE time_minutes_at(locations[i], locations[j], speed)]]

\* opening and closing minutes, visit durations and daily hours tried
WindowMinutes == {-60, 0, 540, 600, 660, 900, 1260, 1500}

VisitDurations == {-30, 0, 60, 300, 720}

DayHourPairs == {h \in {0, 9, 21, 24} \X {0, 9, 21, 24} : h[1] < h[2]}

WindowArgs ==
    {[r |-> [open_time |-> Num(o), close_time |-> Num(c), avg_visit_duration |-> Num(d)],
      request |-> [daily_start_hour |-> h[1], daily_end_hour |-> h[2]]] :
        o \in WindowMinutes, c \in WindowMinutes, d \in VisitDurations,
        h \in DayHourPairs}

\* latitudes (hectometres) and speeds (km/h) tried
Latitudes == {0, 1, 13, 34}

Speeds == {5, 20, 60}

MatrixArgs ==
    {[locations |-> l, speed |-> v] :
        l \in UNION {[1..n -> Latitudes] : n \in 1..MaxPoints - 2}, v \in Speeds}

InitUnit ==
    /\ ATTRACTIONS_DATA = <<>>
    /\ req = <<>>
    /\ pc = "idle"
    /\ recommended_attractions_df = <<>>
    /\ current_attraction_pool = <<>>
    /\ day = 0
    /\ final_itinerary = <<>>
    /\ response = NoResponse
    /\ offered = <<>>
    /\ calls = [rank |-> 0, solve |-> 0]
    /\ peer = NoPeer
    /\ \/ \E a \in WindowArgs : unit = [fn |-> "time_windows", args |-> a, result |-> <<>>]
       \/ \E a \in MatrixArgs : unit = [fn |-> "create_time_matrix", args |-> a, result |-> <<>>]

\* the window list built for one point: the depot's window, then the point's
ApplyTimeWindows ==
    /\ unit.fn = "time_windows"
    /\ unit.result = <<>>
    /\ unit' = [unit EXCEPT !.result =
                    <<time_windows(<<unit.args.r>>, unit.args.request, 0),
                      time_windows(<<unit.args.r>>, unit.args.request, 1)>>]
    /\ UNCHANGED <<ATTRACTIONS_DATA, req, pc, recommended_attractions_df,
                   current_attraction_pool, day, final_itinerary, response,
                   offered, calls, peer>>

ApplyCreateTimeMatrix ==
    /\ unit.fn = "create_time_matrix"
    /\ unit.result = <<>>
    /\ unit' = [unit EXCEPT !.result = time_matrix(unit.args.locations, unit.args.speed)]
    /\ UNCHANGED <<ATTRACTIONS_DATA, req, pc, recommended_attractions_df,
                   current_attraction_pool, day, final_itinerary, response,
                   offered, calls, peer>>

NextUnit ==
    \/ ApplyTimeWindows
    \/ ApplyCreateTimeMatrix

SpecUnit == InitUnit /\ [][NextUnit]_vars
----------------------------------------------------------------------------
(* Properties *)

Last(s) == s[Len(s)]

DatesParse(r) == ~StrptimeRaises(r.start_date) /\ ~StrptimeRaises(r.end_date)

\* a request the data model calls valid
ValidRequest(r) ==
    /\ r.fields = "ok"
    /\ DatesParse(r)
    /\ r.start_date.ord <= r.end_date.ord
    /\ r.daily_start_hour < r.daily_end_hour

\* the i-th day a loop pass was made for appended the i-th day plan
RowsOffered(i) == [k \in 1..Len(offered[i]) |-> ATTRACTIONS_DATA[offered[i][k]]]

\* a step of the loop that appended a day plan of the given kind
Appended(kind) ==
    /\ Len(final_itinerary') = Len(final_itinerary) + 1
    /\ Last(final_itinerary').kind = kind

\* C1: a valid request's returned itinerary has exactly one day plan for each
\* date of [start_date, end_date], in date order
C1_OneDayPlanPerDate ==
    (pc = "done" /\ ValidRequest(req) /\ response.status = 200)
        => /\ Len(response.itinerary) = trip_duration_days(req)
           /\ \A i \in 1..Len(response.itinerary) :
                 response.itinerary[i].day = current_day(req, i - 1)

\* C2: no point identifier is in the stops of two day plans, and a point
\* scheduled on one day is not in the working set of any later day
C2_AtMostOnce ==
    /\ \A i, j \in 1..Len(final_itinerary) :
          i < j => final_itinerary[i].ids \cap final_itinerary[j].ids = {}
    /\ \A i \in 1..Len(final_itinerary), j \in 1..Len(offered) :
          i < j => final_itinerary[i].ids \cap SeqToSet(offered[j]) = {}

C2_Witness ==
    /\ Len(final_itinerary) = 2
    /\ final_itinerary[1].kind = "plan"
    /\ final_itinerary[2].kind = "plan"
    /\ final_itinerary[2].ids # {}

\* C3: every stop of every returned route starts within the resolved window
\* of its point and ends one visit duration later
C3_StopsWithinWindow ==
    \A i \in 1..Len(final_itinerary) :
        \A k \in 1..Len(final_itinerary[i].plan) :
            LET stop == final_itinerary[i].plan[k]
                w == resolve_window(stop.attr_data, req)
            IN /\ w[1] <= stop.start_time_minutes
               /\ stop.start_time_minutes <= w[2]
               /\ stop.attr_data.avg_visit_duration.t = "num"
               /\ stop.end_time_minutes =
                     stop.start_time_minutes + stop.attr_data.avg_visit_duration.n

\* a route with a stop under a relaxed window and a later stop under its own
C3_Witness ==
    \E i \in 1..Len(final_itinerary) :
        \E k, l \in 1..Len(final_itinerary[i].plan) :
            LET a == final_itinerary[i].plan[k]
                b == final_itinerary[i].plan[l]
            IN /\ resolve_window(a.attr_data, req) = default_window(req)
               /\ a.attr_data.close_time.n - a.attr_data.open_time.n
                     < a.attr_data.avg_visit_duration.n
               /\ resolve_window(b.attr_data, req) # default_window(req)
               /\ b.start_time_minutes > 0

\* C4: a stop starts no earlier than the end of the stop before it plus the
\* travel time between the two
C4_TravelRespected ==
    \A i \in 1..Len(final_itinerary) :
        \A k \in 1..(Len(final_itinerary[i].plan) - 1) :
            LET a == final_itinerary[i].plan[k]
                b == final_itinerary[i].plan[k + 1]
            IN b.start_time_minutes >=
                  a.end_time_minutes
                    + time_minutes(a.attr_data.latitude, b.attr_data.latitude)

C4_Witness ==
    \E i \in 1..Len(final_itinerary) :
        \E k \in 1..(Len(final_itinerary[i].plan) - 1) :
            LET a == final_itinerary[i].plan[k]
                b == final_itinerary[i].plan[k + 1]
            IN /\ time_minutes(a.attr_data.latitude, b.attr_data.latitude) > 0
               /\ a.attr_data.avg_visit_duration.n > 0

\* C5: a solved day removes from the pool exactly the points it scheduled,
\* by identifier
C5_RemovesExactlyScheduled ==
    [][Appended("plan")
         => Ids(current_attraction_pool')
              = Ids(current_attraction_pool) \ Last(final_itinerary').ids]_vars

\* C6: an infeasible day appends a note and leaves the pool as it was, and
\* the next day is offered the same working set
C6_InfeasibleKeepsPool ==
    /\ [][Appended("note")
            => /\ current_attraction_pool' = current_attraction_pool
               /\ Last(final_itinerary').note = OptimizationError
               /\ Last(final_itinerary').day = current_day(req, day)]_vars
    /\ [](\A i \in 1..Len(final_itinerary) :
            (final_itinerary[i].kind = "note" /\ i + 1 <= Len(offered))
                => offered[i + 1] = offered[i])

C6_Witness ==
    /\ Len(final_itinerary) >= 1
    /\ final_itinerary[1].kind = "note"
    /\ Len(offered) >= 2
    /\ offered[2] # <<>>

\* C7: once the pool is empty, every day of the range still has a day plan,
\* and none of them is an empty list of stops
C7_ExhaustedPoolNoted ==
    (pc = "done" /\ response.status = 200 /\ current_attraction_pool = <<>>)
        => \A d \in 1..trip_duration_days(req) :
              \E i \in 1..Len(response.itinerary) :
                  /\ response.itinerary[i].day = current_day(req, d - 1)
                  /\ \/ response.itinerary[i].note # ""
                     \/ response.itinerary[i].plan # <<>>

\* candidate k of a working set can be reached from the depot within its
\* window: the one-stop route to it is admitted
Reachable(attractions_df, request, k) ==
    /\ InRange(0, time_windows(attractions_df, request, 0))
    /\ InRange(time_callback(attractions_df, 0, k),
               time_windows(attractions_df, request, k))
    /\ time_callback(attractions_df, 0, k) + time_callback(attractions_df, k, 0)
          <= daily_end_of(request)

Malformed(r) ==
    \/ r.fields # "ok"
    \/ ~DatesParse(r)
    \/ r.end_date.ord < r.start_date.ord
    \/ r.daily_start_hour >= r.daily_end_hour

\* C9: a malformed request is answered with an error before any ranking or
\* solving step, never with an itinerary
C9_MalformedRejected ==
    Malformed(req)
        => /\ calls.rank = 0
           /\ calls.solve = 0
           /\ pc = "done" => response.status # 200

\* C10: a day whose working set has a point with a NaN or missing open time,
\* close time or duration ends in a route or the infeasibility result, never
\* in an exception (days whose depot range already fails are left aside)
C10_NoHardFailure ==
    \A i \in 1..Len(offered) :
        (/\ \E k \in 1..Len(offered[i]) : WindowRaises(RowsOffered(i)[k])
         /\ ~SetRangeFails(RowsOffered(i), req))
            => ~(pc = "done" /\ i = Len(offered) /\ response.body = "exception")

\* C11: for integer opening, closing and duration values and a day window
\* with daily_start < daily_end, the window resolved for a point is
\* (max(open, daily_start), min(close, daily_end) - duration) when that pair is
\* not inverted and the full-day window otherwise, so the depot's window and
\* the point's window both have earliest_start <= latest_start
C11_WindowResolved ==
    (unit.fn = "time_windows" /\ unit.result # <<>>)
        => LET open == unit.args.r.open_time.n
               close == unit.args.r.close_time.n
               duration == unit.args.r.avg_visit_duration.n
               daily_start == unit.args.request.daily_start_hour * 60
               daily_end == unit.args.request.daily_end_hour * 60
               earliest == IF open >= daily_start THEN open ELSE daily_start
               latest == (IF close <= daily_end THEN close ELSE daily_end) - duration
           IN /\ unit.result[2] = IF earliest <= latest THEN <<earliest, latest>>
                                   ELSE <<daily_start, daily_end>>
              /\ unit.result[1] = <<daily_start, daily_end>>
              /\ \A k \in 1..2 : unit.result[k][1] <= unit.result[k][2]

\* a point whose duration exceeds its open interval got the full-day window
C11_Witness ==
    /\ unit.fn = "time_windows"
    /\ unit.result # <<>>
    /\ unit.args.r.open_time.n = 600
    /\ unit.args.r.close_time.n = 660
    /\ unit.args.r.avg_visit_duration.n = 300
    /\ unit.args.request.daily_start_hour = 9
    /\ unit.result[2] = <<540, 1260>>

\* C12: create_time_matrix returns a square matrix with a zero diagonal whose
\* entry (i, j), i # j, is distance / speed x 60 minutes rounded up, so that
\* two locations at a non-zero distance are at least 1 minute apart, and the
\* matrix is symmetric
C12_CeilingTravelTime ==
    (unit.fn = "create_time_matrix" /\ unit.result # <<>>)
        => LET locations == unit.args.locations
               speed == unit.args.speed
               N == Len(locations)
               hm(i, j) == IF locations[i] >= locations[j]
                           THEN locations[i] - locations[j]
                           ELSE locations[j] - locations[i]
               ceiling(i, j) == (hm(i, j) * 60 + 10 * speed - 1) \div (10 * speed)
           IN /\ Len(unit.result) = N
              /\ \A i \in 1..N :
                    /\ Len(unit.result[i]) = N
                    /\ unit.result[i][i] = 0
              /\ \A i, j \in 1..N :
                    i # j => /\ unit.result[i][j] = ceiling(i, j)
                             /\ hm(i, j) > 0 => unit.result[i][j] >= 1
                             /\ unit.result[i][j] = unit.result[j][i]

\* the pool and the itinerary a request served alone has on entering the loop
SoloStart(table, request) ==
    LET recommended == generate_recommendations(table, request)
    IN [pool |-> DfHead(recommended, max_attractions(recommended, request)),
        itinerary |-> <<>>]

\* what one pass of the loop over day d makes of s when served alone
SoloPass(s, request, d) ==
    IF daily_pool_of(s.pool) = <<>> THEN {}
    ELSE {IF daily_route.kind = "route"
          THEN [pool |-> RemoveScheduled(s.pool, daily_route.stops),
                itinerary |-> Append(s.itinerary, PlanEntry(request, d, daily_route))]
          ELSE [pool |-> s.pool,
                itinerary |-> Append(s.itinerary, NoteEntry(request, d, daily_route))] :
            daily_route \in {res \in solve_vrptw_for_day(daily_pool_of(s.pool), request) :
                                 /\ res.kind # "raise"
                                 /\ ~(res.kind = "route" /\ res.stops = <<>>)}}

RECURSIVE SoloRuns(_, _, _)
\* the pools and itineraries a request served alone can have after k passes
SoloRuns(table, request, k) ==
    IF k = 0 THEN {SoloStart(table, request)}
    ELSE UNION {SoloPass(s, request, k - 1) : s \in SoloRuns(table, request, k - 1)}

\* the first request's variables as a frame
OwnFrame ==
    [req |-> req, pc |-> pc, recommended_attractions_df |-> recommended_attractions_df,
     current_attraction_pool |-> current_attraction_pool, day |-> day,
     final_itinerary |-> final_itinerary, response |-> response]

\* the frame h is one the request has when it is served alone
AsIfAlone(h) ==
    /\ h.pc = "plan" =>
          h.recommended_attractions_df = generate_recommendations(ATTRACTIONS_DATA, h.req)
    /\ h.pc = "loop" =>
          [pool |-> h.current_attraction_pool, itinerary |-> h.final_itinerary]
              \in SoloRuns(ATTRACTIONS_DATA, h.req, h.day)
    /\ (h.pc = "done" /\ h.response.status = 200) =>
          \E k \in 0..trip_duration_days(h.req) :
              \E s \in SoloRuns(ATTRACTIONS_DATA, h.req, k) :
                  /\ s.itinerary = h.response.itinerary
                  /\ k = trip_duration_days(h.req) \/ daily_pool_of(s.pool) = <<>>

\* C13: with two requests served at the same time in any interleaving, no
\* step modifies the shared point table, a step changes the pool of at most
\* one request, and each request's pool and itinerary are those it has when
\* it is served alone
C13_RequestIsolation ==
    /\ [][ATTRACTIONS_DATA' = ATTRACTIONS_DATA]_vars
    /\ [][\/ current_attraction_pool' = current_attraction_pool
          \/ peer'.current_attraction_pool = peer.current_attraction_pool]_vars
    /\ [](AsIfAlone(OwnFrame) /\ AsIfAlone(peer))

\* two different requests are both in the loop: the first has scheduled point
\* 1 and lost it from its pool, the second still has point 1 in its pool
C13_Witness ==
    /\ pc = "loop"
    /\ peer.pc = "loop"
    /\ req # peer.req
    /\ \E i \in 1..Len(final_itinerary) : 1 \in final_itinerary[i].ids
    /\ 1 \notin Ids(current_attraction_pool)
    /\ 1 \in Ids(peer.current_attraction_pool)

\* C14: the depot starts at minute 0 and no waiting is allowed while the
\* depot's window is [daily_start, daily_end]: a request with daily_start > 0
\* never gets stops for a day, and in a returned route the first stop starts
\* at the travel time from the depot and every later stop exactly at the
\* start of the stop before it plus that stop's duration plus the travel time
C14_NoWaitFromMidnight ==
    \A i \in 1..Len(final_itinerary) :
        LET plan == final_itinerary[i].plan
        IN /\ req.daily_start_hour > 0
                 => final_itinerary[i].kind = "note" /\ plan = <<>>
           /\ final_itinerary[i].kind = "plan"
                 => /\ req.daily_start_hour = 0
                    /\ plan # <<>>
                    /\ plan[1].start_time_minutes =
                          time_minutes(RowsOffered(i)[1].latitude,
                                       plan[1].attr_data.latitude)
                    /\ \A k \in 1..(Len(plan) - 1) :
                          plan[k + 1].start_time_minutes =
                              plan[k].start_time_minutes
                                + plan[k].attr_data.avg_visit_duration.n
                                + time_minutes(plan[k].attr_data.latitude,
                                               plan[k + 1].attr_data.latitude)

\* a valid request with the default hours was answered with an itinerary:
\* every day of the trip got a pass over a non-empty working set and a note
C14_Witness ==
    /\ pc = "done"
    /\ response.status = 200
    /\ ValidRequest(req)
    /\ req.daily_start_hour = DefaultStartHour
    /\ Len(response.itinerary) = MaxDay
    /\ \A i \in 1..Len(response.itinerary) :
          /\ offered[i] # <<>>
          /\ response.itinerary[i].note = OptimizationError

====
